---- MODULE Spec2Model ----
(***************************************************************************)
(* Notebook 4, "Predicting Small Trigger Classes": the balanced-holdout    *)
(* sampler downsampling_data_set, run_model and misclassification, and the *)
(* notebook globals they read and write.                                   *)
(*                                                                         *)
(* A DataFrame is a sequence of [index, cols] records: index is the row    *)
(* label, cols maps a column name to the row's value in that column.  The  *)
(* order of the sequence is the frame's row order, and a frame made by     *)
(* pd.concat may hold one label more than once.                            *)
(***************************************************************************)
EXTENDS Integers, Sequences, FiniteSets, TLC

\* ------------------------------------------------------------------ bounds
\* Rows of the loaded table.
NRows == 4
\* Thresholds a call may pass: 0..MaxThreshold.
MaxThreshold == 2

\* ----------------------------------------------------------------- columns
TextCols == {"Document", "Sentence", "SentenceLemmas", "SentenceTokens"}

\* The indicator columns of the model, in the table's column order (four of
\* the sixteen of the reference table).
CategoryCols == <<"loan_default", "unspecified", "bankruptcy", "nontrigger">>

Categories == {CategoryCols[k] : k \in 1..Len(CategoryCols)}

\* The indicator sets a row of the loaded table may carry (the categories
\* whose indicator is 1; every other indicator is 0).
RowShapes ==
    { {},
      {"loan_default"}, {"nontrigger"}, {"unspecified"},
      {"loan_default", "bankruptcy"}, {"loan_default", "nontrigger"},
      {"loan_default", "bankruptcy", "nontrigger"} }

\* The text a row carries in a text column.
Text(col, i) == <<col, i>>

\* One row of reshaped_lemmatized.csv.
LoadedRow(i, shape) ==
    [c \in TextCols \cup Categories |->
        IF c \in TextCols THEN Text(c, i)
        ELSE IF c \in shape THEN 1 ELSE 0]

\* get_reshaped_lemmatized(): the table, labelled 0..NRows-1 (RangeIndex).
get_reshaped_lemmatized(shapes) ==
    [k \in 1..NRows |-> [index |-> k - 1, cols |-> LoadedRow(k - 1, shapes[k])]]

\* ----------------------------------------------------------------- helpers
Range(s) == {s[k] : k \in 1..Len(s)}

RECURSIVE SumOver(_, _)
\* The sum of f[x] over x in S.
SumOver(f, S) ==
    IF S = {} THEN 0
    ELSE LET x == CHOOSE y \in S : TRUE IN f[x] + SumOver(f, S \ {x})

RECURSIVE SumSeq(_)
SumSeq(s) == IF s = <<>> THEN 0 ELSE Head(s) + SumSeq(Tail(s))

\* frame.index, as a list.
IndexList(frame) == [k \in 1..Len(frame) |-> frame[k].index]

IndexSet(frame) == Range(IndexList(frame))

\* DataFrame.sum(axis=1) on one row: the sum of the row's numeric columns
\* (the text columns are left out, every numeric column present is summed,
\* a Total column already there included).
RowSum(cols) == SumOver(cols, DOMAIN cols \ TextCols)

\* frame[col].sum(): one entry of DataFrame.sum(axis=0).
ColSum(frame, col) == SumSeq([k \in 1..Len(frame) |-> frame[k].cols[col]])

\* frame.loc[:, col] = value per row
SetCol(cols, col, v) ==
    [c \in DOMAIN cols \cup {col} |-> IF c = col THEN v ELSE cols[c]]

\* frame[frame[col] == v], and frame[frame[col].isin(vs)]
WhereIn(frame, col, vs) == SelectSeq(frame, LAMBDA r : r.cols[col] \in vs)

RECURSIVE Concat(_)
\* pd.concat of a list of frames, in order.
Concat(frames) ==
    IF frames = <<>> THEN <<>> ELSE Head(frames) \o Concat(Tail(frames))

\* ----------------------------------------------------------------- shuffle
\* The ways the first k places of a shuffled np.arange(m) can be filled
\* (positions 1..m, no position twice).
ShuffleOrders[m \in 0..NRows, k \in 0..NRows] ==
    {p \in [1..k -> 1..m] : \A i, j \in 1..k : p[i] = p[j] => i = j}

\* np.random.RandomState(RANDOM_STATE).shuffle(np.arange(m)): the order is
\* a function of the seed and of m alone.  The seed never changes, so the
\* order for length m is fixed for the whole run; which order it is, is not
\* known until it is used.  known is the part of it seen so far, and the
\* result is every way the first k places can continue it.
shuffle(known, m, k) ==
    IF k <= Len(known) THEN {known}
    ELSE {p \in ShuffleOrders[m, k] : SubSeq(p, 1, Len(known)) = known}

RECURSIVE Shuffles(_, _, _)
\* Every family of orders that continues known so that order[m] has at
\* least want[m] places, for every length m in ms.
Shuffles(known, want, ms) ==
    IF ms = {} THEN {known}
    ELSE LET m == CHOOSE x \in ms : TRUE
         IN  UNION { {[f EXCEPT ![m] = p] : p \in shuffle(known[m], m, want[m])} :
                     f \in Shuffles(known, want, ms \ {m}) }

\* sklearn.utils.resample(temp_col, replace=False, n_samples=n_samples,
\* random_state=RANDOM_STATE): a fresh RandomState(RANDOM_STATE) shuffles
\* arange(len(temp_col)) and the rows at its first n_samples places are
\* taken, in that order.
\* A resample that draws the same place every time.
resampleSamePlace(temp_col, n_samples, order) ==
    [k \in 1..n_samples |-> temp_col[order[Len(temp_col)][1]]]

resample(temp_col, n_samples, order) ==
    [k \in 1..n_samples |-> temp_col[order[Len(temp_col)][k]]]

\* resample raises ValueError ("Cannot sample ... when replace is False")
\* when more rows are asked for than there are.
CannotSample(temp_col, n_samples) == n_samples > Len(temp_col)

\* ------------------------------------------------- downsampling_data_set
\* downsampling_set.loc[:,'Total'] = downsampling_set.sum(axis=1), where
\* downsampling_set is the caller's df itself (no copy is made).
AssignTotal(df) ==
    [k \in 1..Len(df) |->
        [df[k] EXCEPT !.cols = SetCol(@, "Total", RowSum(@))]]

\* A threshold test that lets a count equal to the threshold pass.
AtLeast(x, n) == x >= n

\* x > n in trigger_cols.where(lambda x: x > n).dropna()
Exceeds(x, n) == x > n

\* The large trigger columns, in column order: the columns whose sum over
\* downsampling_set passes the threshold, less Total, nontrigger and
\* unspecified.
TriggerCols(downsampling_set, n) ==
    SelectSeq(CategoryCols,
              LAMBDA t : /\ Exceeds(ColSum(downsampling_set, t), n)
                         /\ t \notin {"Total", "nontrigger", "unspecified"})

\* A drop that misses the last label listed.
DropAllButLast(df, rmv_index) ==
    SelectSeq(df, LAMBDA r :
        r.index \notin Range(SubSeq(rmv_index, 1, Len(rmv_index) - 1)))

\* A drop from the rows kept for sampling instead of from the whole table.
DropFromSelected(df, rmv_index) ==
    SelectSeq(df, LAMBDA r : /\ r.cols["Total"] \in {1, 2}
                             /\ r.index \notin Range(rmv_index))

\* df.drop(rmv_index, axis='index'): the rows whose label is not listed.
Drop(df, rmv_index) ==
    SelectSeq(df, LAMBDA r : r.index \notin Range(rmv_index))

\* A label taken from the trigger indicators instead: 1 when some trigger
\* indicator is set.
IsTriggerByLabel(cols) ==
    IF \E c \in Categories \ {"nontrigger"} : cols[c] > 0 THEN 1 ELSE 0

\* np.where(frame['nontrigger'] > 0, 0, 1), for one row
IsTrigger(cols) == IF cols["nontrigger"] > 0 THEN 0 ELSE 1

\* frame['istrigger'] = np.where(frame['nontrigger'] > 0, 0, 1)
WithIsTrigger(frame) ==
    [k \in 1..Len(frame) |->
        [frame[k] EXCEPT !.cols = SetCol(@, "istrigger", IsTrigger(@))]]

\* An in_train_set that also marks a count equal to the threshold.
InTrainSetAtLeast(downsampling_set, n) ==
    [c \in Categories \ {"unspecified"} |-> ColSum(downsampling_set, c) >= n]

\* in_train_set: per category other than unspecified, whether its column
\* sum over downsampling_set is above n.
InTrainSet(downsampling_set, n) ==
    [c \in Categories \ {"unspecified"} |-> ColSum(downsampling_set, c) > n]

\* The rows with one, two or three triggers.
OneTwoOrThree(df) == WhereIn(df, "Total", {1, 2, 3})

\* select only Sentences with 1 or 2 triggers
OneOrTwo(df) == WhereIn(df, "Total", {1, 2})

\* temp_col = downsampling_set[downsampling_set[col] == 1]
TempCol(downsampling_set, col) == WhereIn(downsampling_set, col, {1})

\* The part of downsampling_data_set(df, threshold) before the first draw:
\* Total is written into the caller's df, the rows with Total 1 or 2 are
\* kept and the large trigger columns are picked.
Selection(df, threshold) ==
    LET total == AssignTotal(df)
        downsampling_set == OneOrTwo(total)
    IN  [df |-> total,
         downsampling_set |-> downsampling_set,
         trigger_cols |-> TriggerCols(downsampling_set, threshold)]

\* The first large trigger column whose resample raises, or 0.
FirstFailing(sel, n) ==
    LET bad == {k \in 1..Len(sel.trigger_cols) :
                    CannotSample(TempCol(sel.downsampling_set, sel.trigger_cols[k]), n)}
    IN  IF bad = {} THEN 0 ELSE CHOOSE k \in bad : \A j \in bad : k <= j

\* The rest of downsampling_data_set(df, threshold), from the first draw
\* on, with the shuffles it makes given by order; sel is Selection(df,
\* threshold).  status is "returned" or the exception raised; value is the
\* tuple returned (samples, filtered, in_train_set), <<>> when the call
\* raised; df is the caller's table as the call leaves it; the other fields
\* are the call's locals of the same names.
downsampling_data_set(sel, threshold, order) ==
    LET downsampling_set == sel.downsampling_set
        n == threshold
        trigger_cols == sel.trigger_cols
        sampled_col == [k \in 1..Len(trigger_cols) |->
                          resample(TempCol(downsampling_set, trigger_cols[k]), n, order)]
        trigger_samples == Concat(sampled_col)
        n_unspecified == Len(trigger_samples)
        nontrigger_temp == TempCol(downsampling_set, "nontrigger")
        nontrigger_sampled_col == resample(nontrigger_temp, n_unspecified, order)
        samples == trigger_samples \o nontrigger_sampled_col
        rmv_index == IndexList(samples)
        filtered == Drop(sel.df, rmv_index)
        in_train_set == InTrainSet(downsampling_set, n)
        raised(exception) ==
            [status |-> exception, threshold |-> threshold, df |-> sel.df,
             downsampling_set |-> downsampling_set,
             trigger_cols |-> trigger_cols, value |-> <<>>]
    IN  IF FirstFailing(sel, n) # 0 THEN raised("ValueError")
        \* no large column: samples is never assigned, and
        \* n_unspecified = samples.shape[0] reads an unassigned local
        ELSE IF trigger_cols = <<>> THEN raised("UnboundLocalError")
        ELSE IF CannotSample(nontrigger_temp, n_unspecified) THEN raised("ValueError")
        ELSE [status |-> "returned", threshold |-> threshold, df |-> sel.df,
              downsampling_set |-> downsampling_set,
              trigger_cols |-> trigger_cols,
              value |-> <<WithIsTrigger(samples), WithIsTrigger(filtered),
                          in_train_set>>]

\* The resamples one call makes that do not raise, each as <<length of the
\* frame drawn from, rows drawn>>.
Draws(sel, threshold) ==
    LET tc  == sel.trigger_cols
        fail == FirstFailing(sel, threshold)
        done == IF fail = 0 THEN Len(tc) ELSE fail - 1
        nt  == TempCol(sel.downsampling_set, "nontrigger")
        k_nt == Len(tc) * threshold
    IN  {<<Len(TempCol(sel.downsampling_set, tc[k])), threshold>> : k \in 1..done}
        \cup (IF fail = 0 /\ tc # <<>> /\ ~CannotSample(nt, k_nt)
              THEN {<<Len(nt), k_nt>>} ELSE {})

\* For every length in ms, the number of places of the shuffle of that
\* length that the draws read.
Wanted(draws, ms) ==
    [m \in ms |->
        LET ks == {d[2] : d \in {e \in draws : e[1] = m}}
        IN  CHOOSE k \in ks : \A j \in ks : j <= k]

\* ---------------------------------------------------------------- run_model
\* The globals run_model binds from the globals samples and filtered (its
\* own call of downsampling_data_set binds nothing: the tuple it returns is
\* dropped).
run_model(samples, filtered) ==
    [X_train |-> [k \in 1..Len(samples) |-> samples[k].cols["SentenceLemmas"]],
     y_train |-> [k \in 1..Len(samples) |-> samples[k].cols["istrigger"]],
     X_test |-> [k \in 1..Len(filtered) |-> filtered[k].cols["SentenceLemmas"]],
     y_test |-> [k \in 1..Len(filtered) |-> filtered[k].cols["istrigger"]],
     train_index |-> IndexList(samples),
     test_index |-> IndexList(filtered)]

\* ------------------------------------------------------- misclassification
\* A percentage that reports 0.0 for a category with no evaluation rows.
PercentOrZero(num_misclassified, full_test_set) ==
    [is |-> "number",
     tenths |-> IF full_test_set = 0 THEN 0
                ELSE (1000 * num_misclassified) \div full_test_set]

\* 100 * num_misclassified / full_test_set on two integer columns, rounded to
\* one decimal: a number (in tenths, half to even), NaN for 0/0, inf for
\* x/0.  No exception is raised.
Percent(num_misclassified, full_test_set) ==
    IF full_test_set = 0
    THEN IF num_misclassified = 0 THEN [is |-> "NaN", tenths |-> 0]
                                  ELSE [is |-> "inf", tenths |-> 0]
    ELSE LET q == (1000 * num_misclassified) \div full_test_set
             r == (1000 * num_misclassified) % full_test_set
         IN  [is |-> "number",
              tenths |-> IF 2 * r > full_test_set THEN q + 1
                         ELSE IF 2 * r < full_test_set THEN q
                         ELSE IF q % 2 = 0 THEN q ELSE q + 1]

\* The row of df a label names (merge(df, how='left', left_index=True,
\* right_index=True)).
Lookup(df, index) == (CHOOSE k \in 1..Len(df) : df[k].index = index)

\* misclassification(...): fit holds run_model's results, preds is
\* best_model.predict(X_test), filtered is the argument and df and
\* in_train_set are the globals.  One row per category that in_train_set
\* has (unspecified is lost in the last merge).
misclassification(fit, preds, filtered, df, in_train_set) ==
    LET wrong == {k \in 1..Len(fit.test_index) : preds[k] # fit.y_test[k]}
        misclassified == [k \in wrong |-> df[Lookup(df, fit.test_index[k])].cols]
        full_test_set == [c \in Categories |-> ColSum(filtered, c)]
        misclassified_test_set ==
            [c \in Categories |->
                SumOver([k \in wrong |-> misclassified[k][c]], wrong)]
    IN  [c \in DOMAIN in_train_set |->
            [full_test_set |-> full_test_set[c],
             num_misclassified |-> misclassified_test_set[c],
             percent_misclassified |->
                 Percent(misclassified_test_set[c], full_test_set[c]),
             in_train_set |-> IF in_train_set[c] THEN "yes" ELSE "no"]]

\* ------------------------------------------------------------ the notebook
\* The cell "Perform modeling steps" runs four statements in order; an
\* exception in one ends the cell.
VARIABLES
    table,          \* reshaped_lemmatized.csv, as read
    threshold,      \* the threshold the cell passes to both calls (10 in
                    \* the reference run)
    pc,             \* the statement the cell runs next
    exception,      \* the exception that ended the cell, "" if none
    df,             \* global df
    order,          \* what is known of the seed's shuffles, per length
    samples,        \* global samples
    filtered,       \* global filtered
    in_train_set,   \* global in_train_set
    fit,            \* the globals run_model's results are bound to
    misclassified_results,  \* global misclassified_results
    names,          \* the globals bound so far, other than df
    ncalls,         \* invocations of downsampling_data_set so far
    ret             \* the last invocation of downsampling_data_set

vars == <<table, threshold, pc, exception, df, order, samples, filtered,
          in_train_set, fit, misclassified_results, names, ncalls, ret>>

Thresholds == 0..MaxThreshold

Tables == {get_reshaped_lemmatized(shapes) : shapes \in [1..NRows -> RowShapes]}

NotCalled == [status |-> "none", threshold |-> 0, df |-> <<>>,
              downsampling_set |-> <<>>, trigger_cols |-> <<>>, value |-> <<>>]

\* The state after df = get_reshaped_lemmatized(), for any table of NRows
\* rows and any threshold.
Init ==
    /\ table \in Tables
    /\ threshold \in Thresholds
    /\ pc = "downsampling_data_set"
    /\ exception = ""
    /\ df = table
    /\ order = [m \in 0..NRows |-> <<>>]
    /\ samples = <<>>
    /\ filtered = <<>>
    /\ in_train_set = <<>>
    /\ fit = <<>>
    /\ misclassified_results = <<>>
    /\ names = {}
    /\ ncalls = 0
    /\ ret = NotCalled

\* The outcomes of one invocation downsampling_data_set(df, threshold) in
\* the current state: the shuffles as known after it, and what it did.
Invocations ==
    LET sel == Selection(df, threshold)
        draws == Draws(sel, threshold)
        ms == {d[1] : d \in draws}
    IN  {<<o, downsampling_data_set(sel, threshold, o)>> :
            o \in Shuffles(order, Wanted(draws, ms), ms)}

\* samples, filtered, in_train_set = downsampling_data_set(df, 10)
Downsample ==
    /\ pc = "downsampling_data_set"
    /\ \E inv \in Invocations :
         /\ order' = inv[1]
         /\ df' = inv[2].df
         /\ ret' = inv[2]
         /\ IF inv[2].status = "returned"
            THEN /\ samples' = inv[2].value[1]
                 /\ filtered' = inv[2].value[2]
                 /\ in_train_set' = inv[2].value[3]
                 /\ names' = names \cup {"samples", "filtered", "in_train_set"}
                 /\ pc' = "run_model"
                 /\ UNCHANGED exception
            ELSE /\ pc' = "raised"
                 /\ exception' = inv[2].status
                 /\ UNCHANGED <<names, samples, filtered, in_train_set>>
    /\ ncalls' = ncalls + 1
    /\ UNCHANGED <<table, threshold, fit, misclassified_results>>

\* results_cvec, X_train, y_train, X_test, y_test, train_index, test_index
\*     = run_model(df, 10)
\* run_model calls downsampling_data_set(df, threshold) for its effect on df
\* and reads the globals samples and filtered.  Whether the grid search
\* fits the training set it is given is the library's to say: it may raise.
RunModel ==
    /\ pc = "run_model"
    /\ \E inv \in Invocations, fitted \in BOOLEAN :
         /\ order' = inv[1]
         /\ df' = inv[2].df
         /\ ret' = inv[2]
         /\ IF inv[2].status # "returned"
            THEN /\ pc' = "raised"
                 /\ exception' = inv[2].status
                 /\ UNCHANGED <<fit, names>>
            ELSE IF ~({"samples", "filtered"} \subseteq names)
            THEN /\ pc' = "raised"
                 /\ exception' = "NameError"
                 /\ UNCHANGED <<fit, names>>
            ELSE IF ~fitted
            THEN /\ pc' = "raised"
                 /\ exception' = "ValueError"
                 /\ UNCHANGED <<fit, names>>
            ELSE /\ pc' = "misclassification"
                 /\ fit' = run_model(samples, filtered)
                 /\ names' = names \cup {"results_cvec", "X_train", "y_train",
                                         "X_test", "y_test", "train_index",
                                         "test_index"}
                 /\ UNCHANGED exception
    /\ ncalls' = ncalls + 1
    /\ UNCHANGED <<table, threshold, samples, filtered, in_train_set,
                   misclassified_results>>

\* misclassified_results = misclassification(results_cvec, X_train, y_train,
\*     X_test, y_test, train_index, test_index, filtered)
\* The fitted model's predictions are any 0/1 labelling of X_test.
Misclassification ==
    /\ pc = "misclassification"
    /\ \E preds \in [1..Len(fit.X_test) -> {0, 1}] :
         misclassified_results' =
             misclassification(fit, preds, filtered, df, in_train_set)
    /\ names' = names \cup {"misclassified_results"}
    /\ pc' = "done"
    /\ UNCHANGED <<table, threshold, exception, df, order, samples, filtered,
                   in_train_set, fit, ncalls, ret>>

Next ==
    \/ Downsample
    \/ RunModel
    \/ Misclassification

Spec == Init /\ [][Next]_vars

\* The cell with the two thresholds it passes not bound to be the same:
\* run_model(df, t) is passed a threshold other than the one the call of
\* downsampling_data_set before it was passed.
OtherThreshold ==
    /\ pc = "run_model"
    /\ threshold = ret.threshold
    /\ threshold' \in Thresholds \ {threshold}
    /\ UNCHANGED <<table, pc, exception, df, order, samples, filtered,
                   in_train_set, fit, misclassified_results, names, ncalls,
                   ret>>

NextThresholds ==
    \/ Next
    \/ OtherThreshold

SpecThresholds == Init /\ [][NextThresholds]_vars

\* ------------------------------------------------------------------ claims
\* The last invocation of downsampling_data_set returned.
Returned == ret.status = "returned"

RetSamples == ret.value[1]

RetFiltered == ret.value[2]

RetInTrainSet == ret.value[3]

\* The rows of the table the last invocation kept for sampling (Total 1 or
\* 2, Total as the invocation wrote it), as positions of ret.df.
Kept == {k \in 1..Len(ret.df) : ret.df[k].cols["Total"] \in {1, 2}}

\* The occurrence count of category c over the kept rows.
KeptCount(c) == Cardinality({k \in Kept : ret.df[k].cols[c] = 1})

\* The occurrence count of category c over the whole table.
FullCount(c) == Cardinality({k \in 1..Len(table) : table[k].cols[c] = 1})

\* C1: when downsampling_data_set returns, the row labels of samples and the
\* row labels of filtered are disjoint and together are the labels of the
\* whole table df, the rows whose Total is neither 1 nor 2 included.
C1_Partition ==
    Returned =>
        /\ IndexSet(RetSamples) \cap IndexSet(RetFiltered) = {}
        /\ IndexSet(RetSamples) \cup IndexSet(RetFiltered) = IndexSet(table)

\* A call returned on a table that has a row with Total outside {1, 2}.
C1_Witness ==
    /\ Returned
    /\ RetSamples # <<>>
    /\ Kept # 1..Len(ret.df)

\* The trigger categories the last invocation held to be small: not
\* nontrigger, not unspecified, and a count over the kept rows at or below
\* the threshold.
Small == {c \in Categories \ {"nontrigger", "unspecified"} :
             KeptCount(c) <= ret.threshold}

\* C2: no row of the returned training set has indicator 1 for a small
\* category, and every table row that has is in the evaluation set.
C2_SmallHeldOut ==
    Returned =>
        /\ \A k \in 1..Len(RetSamples) : \A c \in Small :
               RetSamples[k].cols[c] # 1
        /\ \A k \in 1..Len(table) : \A c \in Small :
               table[k].cols[c] = 1 => table[k].index \in IndexSet(RetFiltered)

\* C3: the second invocation, the one inside run_model, returns the same
\* training labels and the same evaluation labels as the first, whose
\* results the globals samples and filtered hold.
C3_SameTwice ==
    (ncalls = 2 /\ threshold = ret.threshold) =>
        /\ Returned
        /\ IndexSet(RetSamples) = IndexSet(samples)
        /\ IndexSet(RetFiltered) = IndexSet(filtered)

\* The labels of rows a..b of a frame are pairwise distinct.
DistinctLabels(frame, a, b) ==
    \A i, j \in a..b : frame[i].index = frame[j].index => i = j

\* C4: the returned training set is, for each large category in turn, n
\* rows with pairwise distinct labels and that category's indicator 1, then
\* |L| * n rows with pairwise distinct labels and nontrigger 1: 2 * |L| * n
\* rows in all.
C4_TrainingSetShape ==
    Returned =>
        LET L == ret.trigger_cols
            n == ret.threshold
            S == RetSamples
        IN  /\ Len(S) = 2 * Len(L) * n
            /\ \A j \in 1..Len(L) :
                   /\ DistinctLabels(S, (j - 1) * n + 1, j * n)
                   /\ \A k \in ((j - 1) * n + 1)..(j * n) : S[k].cols[L[j]] = 1
            /\ DistinctLabels(S, Len(L) * n + 1, 2 * Len(L) * n)
            /\ \A k \in (Len(L) * n + 1)..(2 * Len(L) * n) :
                   S[k].cols["nontrigger"] = 1

\* A call returned with two large categories.
C4_Witness ==
    /\ Returned
    /\ Len(ret.trigger_cols) = 2

\* C5 as stated: the evaluation set has as many rows as the rows kept for
\* sampling (Total 1 or 2) less the distinct labels of the training set.
C5_Original ==
    Returned =>
        Len(RetFiltered) = Cardinality(Kept) - Cardinality(IndexSet(RetSamples))

\* C5 as amended: the evaluation set has as many rows as the whole table
\* less the distinct labels of the training set.
C5_EvaluationCount ==
    Returned =>
        Len(RetFiltered) = Len(table) - Cardinality(IndexSet(RetSamples))

\* A call returned on a table with a row outside Total 1 or 2, with a label
\* drawn twice.
C5_Witness ==
    /\ Returned
    /\ Cardinality(Kept) < Len(table)
    /\ Cardinality(IndexSet(RetSamples)) < Len(RetSamples)

\* The occurrence count of category c over the table rows that have one or
\* two indicators set.
OneOrTwoCount(c) ==
    Cardinality({k \in 1..Len(table) :
        /\ table[k].cols[c] = 1
        /\ Cardinality({d \in Categories : table[k].cols[d] = 1}) \in {1, 2}})

\* C6 as stated: a reported category's in_train_set is set exactly when its
\* occurrence count over the whole table is above the threshold.
C6_Original ==
    Returned =>
        \A c \in DOMAIN RetInTrainSet :
            RetInTrainSet[c] <=> FullCount(c) > ret.threshold

\* C6 as amended: in_train_set has an entry for every category but
\* unspecified, set exactly when the category's occurrence count over the
\* rows kept for sampling (Total 1 or 2) is above the threshold; the report
\* of the cell says 'yes' for exactly the categories whose count over the
\* table rows with one or two indicators set is above the cell's threshold.
C6_InTrainSet ==
    /\ Returned =>
           /\ DOMAIN RetInTrainSet = Categories \ {"unspecified"}
           /\ \A c \in DOMAIN RetInTrainSet :
                  RetInTrainSet[c] <=> KeptCount(c) > ret.threshold
    /\ pc = "done" =>
           /\ DOMAIN misclassified_results = Categories \ {"unspecified"}
           /\ \A c \in DOMAIN misclassified_results :
                  /\ misclassified_results[c].in_train_set \in {"yes", "no"}
                  /\ misclassified_results[c].in_train_set = "yes"
                         <=> OneOrTwoCount(c) > threshold

\* A call returned with a category whose count is above the threshold over
\* the whole table and is not over the kept rows, and with one whose count
\* over the kept rows is the threshold exactly.
C6_Witness ==
    /\ Returned
    /\ \E c \in DOMAIN RetInTrainSet :
           FullCount(c) > ret.threshold /\ KeptCount(c) <= ret.threshold
    /\ \E c \in DOMAIN RetInTrainSet : KeptCount(c) = ret.threshold

\* C7: an invocation that finds no large category returns, with an empty
\* training set and the whole table as the evaluation set.
C7_NoLargeCategory ==
    (ret.status # "none" /\ ret.trigger_cols = <<>>) =>
        /\ Returned
        /\ RetSamples = <<>>
        /\ IndexSet(RetFiltered) = IndexSet(table)

\* C8: misclassification reports every category of in_train_set, and a
\* category with no occurrence in the evaluation set has NaN for its
\* percent_misclassified.
C8_ZeroTestSet ==
    pc = "done" =>
        /\ DOMAIN misclassified_results = DOMAIN in_train_set
        /\ \A c \in DOMAIN misclassified_results :
               misclassified_results[c].full_test_set = 0 =>
                   misclassified_results[c].percent_misclassified.is = "NaN"

\* The report was made with a category absent from the evaluation set and a
\* category present and misclassified.
C8_Witness ==
    /\ pc = "done"
    /\ \E c \in DOMAIN misclassified_results :
           misclassified_results[c].full_test_set = 0
    /\ \E c \in DOMAIN misclassified_results :
           misclassified_results[c].num_misclassified > 0

\* C9: every row of the returned training set and of the returned
\* evaluation set has istrigger 0 if its nontrigger indicator is 1 and
\* istrigger 1 if not.
C9_IsTrigger ==
    Returned =>
        \A frame \in {RetSamples, RetFiltered} : \A k \in 1..Len(frame) :
            /\ frame[k].cols["nontrigger"] = 1 => frame[k].cols["istrigger"] = 0
            /\ frame[k].cols["nontrigger"] # 1 => frame[k].cols["istrigger"] = 1

\* A call returned a training row drawn for a large trigger category that
\* carries nontrigger as well, and an evaluation row with no indicator set.
C9_Witness ==
    /\ Returned
    /\ \E k \in 1..(Len(ret.trigger_cols) * ret.threshold) :
           RetSamples[k].cols["nontrigger"] = 1
    /\ \E k \in 1..Len(RetFiltered) :
           \A c \in Categories : RetFiltered[k].cols[c] = 0

C11_SetsOfThreshold ==
    /\ pc \in {"misclassification", "done"} =>
           /\ Returned
           /\ ret.threshold = threshold
           /\ fit = run_model(RetSamples, RetFiltered)
    /\ pc = "done" =>
           /\ DOMAIN misclassified_results = DOMAIN RetInTrainSet
           /\ \A c \in DOMAIN misclassified_results :
                  misclassified_results[c].in_train_set = "yes"
                      <=> RetInTrainSet[c]

\* C12: after any number of invocations of downsampling_data_set on the
\* table, every row of df has for Total the sum of that row's category
\* indicators as loaded, and has every other column as it was loaded.
C12_TotalIsIndicatorSum ==
    ncalls >= 1 =>
        /\ Len(df) = Len(table)
        /\ \A k \in 1..Len(df) :
               /\ df[k].index = table[k].index
               /\ DOMAIN df[k].cols = DOMAIN table[k].cols \cup {"Total"}
               /\ \A col \in DOMAIN table[k].cols :
                      df[k].cols[col] = table[k].cols[col]
               /\ df[k].cols["Total"] = SumOver(table[k].cols, Categories)

\* The number of rows of frame that carry the row label index.
Occurrences(frame, index) ==
    Cardinality({k \in 1..Len(frame) : frame[k].index = index})

\* C13: in the training set the first invocation on the table as loaded
\* returns, no row label occurs more than twice.
C13_AtMostTwice ==
    (ncalls = 1 /\ Returned) =>
        \A index \in IndexSet(RetSamples) : Occurrences(RetSamples, index) <= 2

\* The first invocation returned a training set in which a row with two
\* indicators set occurs twice, on a table that has a row with three.
C13_Witness ==
    /\ ncalls = 1
    /\ Returned
    /\ \E index \in IndexSet(RetSamples) : Occurrences(RetSamples, index) = 2
    /\ \E k \in 1..Len(table) :
           Cardinality({c \in Categories : table[k].cols[c] = 1}) = 3

====
